---- MODULE Spec2Model ----
(***************************************************************************)
(* Model of the firmware self-update task (OtaUpdater) of bernd-box:       *)
(* handleCallback (command entry point), OnTaskEnable, TaskCallback (the   *)
(* periodic tick), OnTaskDisable (teardown and restart) and sendResult.    *)
(***************************************************************************)
EXTENDS Integers, Sequences, FiniteSets, TLC

\* ------------------------------------------------------------------------
\* Bounds of the model
SmallSize == 1      \* a small image size offered by commands
LargeSize == 3      \* a larger image size offered by commands
MaxNames == 3       \* peripheral type names offered to registerFactory
MaxCallbacks == 2   \* factory callbacks offered to registerFactory
MaxRead == 2        \* most bytes one readBytes call returns in the model
ProgressSize == 101 \* the larger image size of the progress specification

\* ------------------------------------------------------------------------
\* Program constants
BufferCapacity == 4096
HTTP_CODE_OK == 200

update_in_progress_error_ == "OTA update already running"
failed_to_connect_error_ == "Failed to connect"
connection_lost_error_ == "Connection lost"
http_code_error_ == "HTTP code: "
status_start_ == "start"
status_updating_ == "updating"
status_finish_ == "finish"
status_fail_ == "fail"
url_key_ == "url"
image_size_key_ == "size"
md5_hash_key_ == "md5"
restart_key_ == "restart"

\* ------------------------------------------------------------------------
\* JSON values of a command (ArduinoJson variants), all of one record shape
JNull == [t |-> "null", s |-> "", n |-> 0, b |-> FALSE]
JStr(s) == [t |-> "string", s |-> s, n |-> 0, b |-> FALSE]
JUint(n) == [t |-> "uint", s |-> "", n |-> n, b |-> FALSE]
JNegInt == [t |-> "int", s |-> "", n |-> -1, b |-> FALSE]
JBool(b) == [t |-> "bool", s |-> "", n |-> 0, b |-> b]

\* variant.is<const char*>(), variant.is<size_t>(), variant.is<bool>()
IsString(v) == v.t = "string"
IsSizeT(v) == v.t = "uint"
IsBool(v) == v.t = "bool"

\* A const char* is a sequence of length 0 (nullptr) or 1 (the text)
NullPtr == <<>>
RequestIds == {NullPtr, <<"r1">>, <<"r2">>}

StringUrls == {JStr("http://h/f"), JStr("https://h/f"), JStr("https")}
UintSizes == {JUint(SmallSize), JUint(LargeSize)}

\* Commands whose four fields have their types
ValidMessages ==
  [has_update : {TRUE}, url : StringUrls, size : UintSizes,
   md5 : {JStr("abc123")}, restart : {JBool(TRUE), JBool(FALSE)},
   requestId : RequestIds]

\* Commands with one or more fields missing or of another type
InvalidMessages ==
  {m \in [has_update : {TRUE}, url : {JStr("http://h/f"), JNull},
          size : {JUint(SmallSize), JStr("1000"), JNegInt},
          md5 : {JStr("abc123"), JNull}, restart : {JBool(TRUE), JNull},
          requestId : RequestIds] :
     ~(IsString(m.url) /\ IsSizeT(m.size) /\ IsString(m.md5)
       /\ IsBool(m.restart))}

\* Messages without an update directive
OtherMessages ==
  [has_update : {FALSE}, url : {JNull}, size : {JNull}, md5 : {JNull},
   restart : {JNull}, requestId : RequestIds]

Messages == ValidMessages \cup InvalidMessages \cup OtherMessages

\* Response codes of client_.GET(): success, an HTTP error, a client error
StatusCodes == {200, 404, -1}

\* Update.end(): "" is success, otherwise the text of Update.errorString()
EndOutcomes == {"", "MD5 Check Failed", "Could Not Activate The Firmware"}

\* ------------------------------------------------------------------------
VARIABLES
  is_updating_,         \* session active flag
  request_id_,          \* stored request id ("" when empty)
  image_size_,          \* image size of the accepted command
  restart_,             \* restart intent
  last_percent_update,  \* last reported percent, -1 when none
  buffer_,              \* size of the download buffer
  client_,              \* HTTP client: "closed", "open", "lost"
  Update,               \* flashing primitive
  enabled,              \* the periodic tick is registered with the scheduler
  server,               \* the Server collaborator was there for the last
                        \* operation (services_.getServer() not null)
  restarted,            \* esp_restart() was called; the device is rebooting
  op,                   \* the last operation the program ran
  ev,                   \* the calls and results of that operation, in order
  sess,                 \* history of the session, kept until the updater
                        \* takes up the next command
  factories,            \* PeripheralFactory::getFactories(): name -> callback
  call,                 \* the arguments of the last registerFactory call
  retval,               \* what that call returned
  first                 \* the first callback passed under each name

progVars == <<is_updating_, request_id_, image_size_, restart_,
              last_percent_update, buffer_, client_, Update, enabled>>
vars == <<is_updating_, request_id_, image_size_, restart_,
          last_percent_update, buffer_, client_, Update, enabled,
          server, restarted, op, ev, sess, factories, call, retval, first>>
factoryVars == <<factories, call, retval, first>>

\* ------------------------------------------------------------------------
\* Events recorded in ev
Call(name, arg) ==
  [e |-> name, status |-> "", detail |-> arg, id |-> NullPtr]
Result(status, detail, id) ==
  [e |-> "sendResults", status |-> status, detail |-> detail, id |-> id]

IsResult(x) == x.e = "sendResults"

\* OtaUpdater::sendResult: nothing is sent without a server; the request id
\* is the parameter if given, else the stored one if not empty, else absent
sendResult_StoredFirst(e, stored, status, detail, request_id) ==
  IF ~server'
    THEN e
    ELSE Append(e, Result(status, detail,
                          IF stored # "" THEN <<stored>>
                          ELSE IF request_id # NullPtr THEN request_id
                          ELSE NullPtr))

sendResult(e, stored, status, detail, request_id) ==
  IF ~server'
    THEN e
    ELSE Append(e, Result(status, detail,
                          IF request_id # NullPtr THEN request_id
                          ELSE IF stored # "" THEN <<stored>>
                          ELSE NullPtr))

\* String assignment from const char*: nullptr gives the empty String
StringOf(p) == IF p = NullPtr THEN "" ELSE p[1]

\* ErrorResult(who, text).toString(): the text
ErrorResultToString(who, text) == text

\* ErrorStore::genMissingProperty(key, type)
KeyTypeName(type) ==
  CASE type = "kString" -> "string"
    [] type = "kBool" -> "boolean"
    [] OTHER -> "unsigned integer"
genMissingProperty(key, type) ==
  "Missing property: " \o key \o " (" \o KeyTypeName(type) \o ")"

\* ------------------------------------------------------------------------
\* int percent = float(Update.progress()) / float(image_size_) * 100;
\* single-precision arithmetic: the quotient is rounded to a 24-bit
\* significand, so is the product with 100, and the conversion truncates.
RoundHalfEven(q, r, d) ==
  q + (IF 2 * r > d \/ (2 * r = d /\ q % 2 = 1) THEN 1 ELSE 0)

\* b * 2^k = q * s + r; stops when q has 24 bits; gives <<significand, k>>
RECURSIVE F32DivStep(_, _, _, _)
F32DivStep(q, r, k, s) ==
  IF q >= 2^23
    THEN <<RoundHalfEven(q, r, s), k>>
    ELSE F32DivStep(2 * q + ((2 * r) \div s), (2 * r) % s, k + 1, s)

F32Div(b, s) == F32DivStep(b \div s, b % s, 0, s)

\* least t with p \div 2^t below 2^24
RECURSIVE F32Shift(_, _)
F32Shift(p, t) == IF p \div (2^t) < 2^24 THEN t ELSE F32Shift(p, t + 1)

Percent(progress, size) ==
  IF progress = 0
    THEN 0
    ELSE LET q == F32Div(progress, size)
             p == q[1] * 100
             t == F32Shift(p, 0)
             m == RoundHalfEven(p \div (2^t), p % (2^t), 2^t)
             d == q[2] - t
         IN IF d > 30 THEN 0 ELSE m \div (2^d)

\* Percent over the image sizes of the model, computed once
MaxImageSize == IF ProgressSize > LargeSize THEN ProgressSize ELSE LargeSize
PercentOf ==
  [progress \in 0..MaxImageSize |->
     [size \in 1..MaxImageSize |-> Percent(progress, size)]]

\* String status = "{done:" + last_percent_update + "%}"
ProgressDetail(percent) == "{done:" \o ToString(percent) \o "%}"

Min(a, b) == IF a < b THEN a ELSE b

\* ------------------------------------------------------------------------
\* History of a session: the statuses of its results (a run of "updating"
\* kept as one), whether a result of it found no server to send it, the
\* restart flag of its command, the outcome of finalize and the number of
\* teardowns
NoSession == [log |-> <<>>, unsent |-> FALSE, restart |-> FALSE,
              finalize |-> "none", disables |-> 0]

RECURSIVE Statuses(_)
Statuses(e) ==
  IF e = <<>> THEN <<>>
  ELSE IF IsResult(Head(e)) THEN <<Head(e).status>> \o Statuses(Tail(e))
  ELSE Statuses(Tail(e))

RECURSIVE Collapse(_, _)
Collapse(log, st) ==
  IF st = <<>> THEN log
  ELSE IF log # <<>> /\ log[Len(log)] = status_updating_
          /\ Head(st) = status_updating_
    THEN Collapse(log, Tail(st))
    ELSE Collapse(Append(log, Head(st)), Tail(st))

\* ------------------------------------------------------------------------
\* PeripheralFactory: the registry of factory callbacks by type name, a
\* function from the registered names to callbacks
Names == {"type" \o ToString(i) : i \in 1..MaxNames}
Callbacks == 1..MaxCallbacks

\* static std::map<const String, Callback> factories: empty at first use
EmptyMap == [n \in {} |-> 0]

\* std::map::count and std::map::emplace (which inserts only a new key)
count(map, name) == IF name \in DOMAIN map THEN 1 ELSE 0
emplace(map, name, factory) ==
  IF name \in DOMAIN map
    THEN map
    ELSE [n \in DOMAIN map \cup {name} |->
            IF n = name THEN factory ELSE map[n]]

\* ------------------------------------------------------------------------
Init ==
  /\ is_updating_ = FALSE
  /\ request_id_ = ""
  /\ image_size_ = 0
  /\ restart_ = FALSE
  /\ last_percent_update = -1
  /\ buffer_ = 0
  /\ client_ = "closed"
  /\ Update = [md5set |-> FALSE, size |-> 0, progress |-> 0, error |-> ""]
  /\ enabled = FALSE
  /\ server = TRUE
  /\ restarted = FALSE
  /\ op = "boot"
  /\ ev = <<>>
  /\ sess = NoSession
  /\ factories = EmptyMap
  /\ call = <<>>
  /\ retval = FALSE
  /\ first = EmptyMap

\* ------------------------------------------------------------------------
\* handleCallback, one definition per exit of the function

\* no update directive in the message: return
CommandIgnored(m) ==
  /\ ~m.has_update
  /\ ev' = <<>>
  /\ UNCHANGED <<progVars, sess>>

\* an update is already running: fail with the new request id
CommandRejected_Silent(m) ==
  /\ m.has_update
  /\ is_updating_
  /\ ev' = <<>>
  /\ UNCHANGED <<progVars, sess>>

CommandRejected_StoresId(m) ==
  /\ m.has_update
  /\ is_updating_
  /\ request_id_' = StringOf(m.requestId)
  /\ ev' = sendResult(<<>>, request_id_, status_fail_,
                      update_in_progress_error_, m.requestId)
  /\ UNCHANGED <<is_updating_, image_size_, restart_, last_percent_update,
                 buffer_, client_, Update, enabled, sess>>

CommandRejected(m) ==
  /\ m.has_update
  /\ is_updating_
  /\ ev' = sendResult(<<>>, request_id_, status_fail_,
                      update_in_progress_error_, m.requestId)
  /\ UNCHANGED <<progVars, sess>>

\* url is not a string
CommandBadUrl(m) ==
  /\ m.has_update /\ ~is_updating_
  /\ ~IsString(m.url)
  /\ request_id_' = StringOf(m.requestId)
  /\ ev' = sendResult(<<>>, request_id_', status_fail_,
                      genMissingProperty(url_key_, "kString"), NullPtr)
  /\ UNCHANGED <<is_updating_, image_size_, restart_, last_percent_update,
                 buffer_, client_, Update, enabled>>
  /\ sess' = NoSession

\* size is not a size_t
CommandBadSize(m) ==
  /\ m.has_update /\ ~is_updating_
  /\ IsString(m.url)
  /\ ~IsSizeT(m.size)
  /\ request_id_' = StringOf(m.requestId)
  /\ ev' = sendResult(<<>>, request_id_', status_fail_,
                      genMissingProperty(image_size_key_, "kString"), NullPtr)
  /\ UNCHANGED <<is_updating_, image_size_, restart_, last_percent_update,
                 buffer_, client_, Update, enabled>>
  /\ sess' = NoSession

\* md5 is not a string
CommandBadMd5(m) ==
  /\ m.has_update /\ ~is_updating_
  /\ IsString(m.url) /\ IsSizeT(m.size)
  /\ ~IsString(m.md5)
  /\ request_id_' = StringOf(m.requestId)
  /\ image_size_' = m.size.n
  /\ ev' = sendResult(<<>>, request_id_', status_fail_,
                      genMissingProperty(md5_hash_key_, "kString"), NullPtr)
  /\ UNCHANGED <<is_updating_, restart_, last_percent_update,
                 buffer_, client_, Update, enabled>>
  /\ sess' = NoSession

\* restart is not a bool
CommandBadRestart(m) ==
  /\ m.has_update /\ ~is_updating_
  /\ IsString(m.url) /\ IsSizeT(m.size) /\ IsString(m.md5)
  /\ ~IsBool(m.restart)
  /\ request_id_' = StringOf(m.requestId)
  /\ image_size_' = m.size.n
  /\ ev' = sendResult(<<>>, request_id_', status_fail_,
                      genMissingProperty(restart_key_, "kBool"), NullPtr)
  /\ UNCHANGED <<is_updating_, restart_, last_percent_update,
                 buffer_, client_, Update, enabled>>
  /\ sess' = NoSession

\* all four fields have their types
CommandValid(m) ==
  /\ m.has_update /\ ~is_updating_
  /\ IsString(m.url) /\ IsSizeT(m.size) /\ IsString(m.md5)
  /\ IsBool(m.restart)

\* strcmp(url_str, "https") == 0
UseTls(m) == m.url.s = "https"

\* client_.begin(url, root_cas) or client_.begin(url)
BeginCall(m) ==
  IF UseTls(m) THEN Call("client.begin+CA", m.url.s)
               ELSE Call("client.begin", m.url.s)

\* TLS wanted but no server to get the root CAs from: return
CommandNoServer(m) ==
  /\ CommandValid(m)
  /\ UseTls(m) /\ ~server'
  /\ request_id_' = StringOf(m.requestId)
  /\ image_size_' = m.size.n
  /\ restart_' = m.restart.b
  /\ ev' = <<>>
  /\ UNCHANGED <<is_updating_, last_percent_update, buffer_, client_,
                 Update, enabled>>
  /\ sess' = NoSession

\* client_.begin() returns false
CommandConnectFailed_NoReturn(m) ==
  /\ CommandValid(m)
  /\ UseTls(m) => server'
  /\ request_id_' = StringOf(m.requestId)
  /\ image_size_' = m.size.n
  /\ restart_' = m.restart.b
  /\ client_' = "closed"
  /\ Update' = [md5set |-> TRUE, size |-> image_size_', progress |-> 0,
                error |-> ""]
  /\ ev' = sendResult(<<BeginCall(m)>>, request_id_', status_fail_,
                      failed_to_connect_error_, NullPtr)
             \o <<Call("Update.setMD5", m.md5.s),
                  Call("Update.begin", ToString(image_size_'))>>
  /\ UNCHANGED <<is_updating_, last_percent_update, buffer_, enabled>>
  /\ sess' = NoSession

CommandConnectFailed(m) ==
  /\ CommandValid(m)
  /\ UseTls(m) => server'
  /\ request_id_' = StringOf(m.requestId)
  /\ image_size_' = m.size.n
  /\ restart_' = m.restart.b
  /\ client_' = "closed"
  /\ ev' = sendResult(<<BeginCall(m)>>, request_id_', status_fail_,
                      failed_to_connect_error_, NullPtr)
  /\ UNCHANGED <<is_updating_, last_percent_update, buffer_,
                 Update, enabled>>
  /\ sess' = NoSession

\* client_.GET() returns a code other than 200
CommandHttpError_Silent(m, status_code) ==
  /\ CommandValid(m)
  /\ UseTls(m) => server'
  /\ status_code # HTTP_CODE_OK
  /\ request_id_' = StringOf(m.requestId)
  /\ image_size_' = m.size.n
  /\ restart_' = m.restart.b
  /\ client_' = IF status_code < 0 THEN "closed" ELSE "open"
  /\ ev' = <<BeginCall(m), Call("client.GET", "")>>
  /\ UNCHANGED <<is_updating_, last_percent_update, buffer_,
                 Update, enabled>>
  /\ sess' = NoSession

CommandHttpError(m, status_code) ==
  /\ CommandValid(m)
  /\ UseTls(m) => server'
  /\ status_code # HTTP_CODE_OK
  /\ request_id_' = StringOf(m.requestId)
  /\ image_size_' = m.size.n
  /\ restart_' = m.restart.b
  /\ client_' = IF status_code < 0 THEN "closed" ELSE "open"
  /\ ev' = sendResult(<<BeginCall(m), Call("client.GET", "")>>,
                      request_id_', status_fail_,
                      ErrorResultToString("OtaUpdater",
                        http_code_error_ \o ToString(status_code)),
                      NullPtr)
  /\ UNCHANGED <<is_updating_, last_percent_update, buffer_,
                 Update, enabled>>
  /\ sess' = NoSession

\* OnTaskEnable, called by enable()
OnTaskEnable ==
  /\ buffer_' = BufferCapacity
  /\ is_updating_' = TRUE

\* BaseTask::enable(): the tick is registered and OnTaskEnable runs
enable ==
  /\ enabled' = TRUE
  /\ OnTaskEnable

\* 200: set up the flashing primitive, send "start", enable the task
CommandStart_BeginFirst(m) ==
  /\ CommandValid(m)
  /\ UseTls(m) => server'
  /\ request_id_' = StringOf(m.requestId)
  /\ image_size_' = m.size.n
  /\ restart_' = m.restart.b
  /\ client_' = "open"
  /\ Update' = [md5set |-> TRUE, size |-> image_size_', progress |-> 0,
                error |-> ""]
  /\ ev' = sendResult(<<BeginCall(m), Call("client.GET", ""),
                        Call("Update.begin", ToString(image_size_')),
                        Call("Update.setMD5", m.md5.s)>>,
                      request_id_', status_start_, "", NullPtr)
  /\ enable
  /\ sess' = [log |-> Statuses(ev'), unsent |-> ~server',
              restart |-> m.restart.b, finalize |-> "none", disables |-> 0]
  /\ UNCHANGED last_percent_update

CommandStart(m) ==
  /\ CommandValid(m)
  /\ UseTls(m) => server'
  /\ request_id_' = StringOf(m.requestId)
  /\ image_size_' = m.size.n
  /\ restart_' = m.restart.b
  /\ client_' = "open"
  /\ Update' = [md5set |-> TRUE, size |-> image_size_', progress |-> 0,
                error |-> ""]
  /\ ev' = sendResult(<<BeginCall(m), Call("client.GET", ""),
                        Call("Update.setMD5", m.md5.s),
                        Call("Update.begin", ToString(image_size_'))>>,
                      request_id_', status_start_, "", NullPtr)
  /\ enable
  /\ sess' = [log |-> Statuses(ev'), unsent |-> ~server',
              restart |-> m.restart.b, finalize |-> "none", disables |-> 0]
  /\ UNCHANGED last_percent_update

handleCallback(m) ==
  /\ ~restarted
  /\ op' = "handleCallback"
  /\ server' \in BOOLEAN
  /\ UNCHANGED restarted
  /\ \/ CommandIgnored(m)
     \/ CommandRejected(m)
     \/ CommandBadUrl(m)
     \/ CommandBadSize(m)
     \/ CommandBadMd5(m)
     \/ CommandBadRestart(m)
     \/ CommandNoServer(m)
     \/ CommandConnectFailed(m)
     \/ \E status_code \in StatusCodes : CommandHttpError(m, status_code)
     \/ CommandStart(m)
  /\ UNCHANGED factoryVars

\* ------------------------------------------------------------------------
\* OnTaskDisable, called by disable(): with restart intent r the device
\* restarts and nothing after esp_restart() runs; otherwise the session's
\* fields are reset.  e: the events of the step so far, lp: the last
\* reported percent at the call
OnTaskDisable(r, e, lp) ==
  /\ restart_' = r
  /\ IF r
       THEN /\ ev' = Append(e, Call("esp_restart", ""))
            /\ restarted' = TRUE
            /\ last_percent_update' = lp
            /\ UNCHANGED <<buffer_, request_id_, is_updating_>>
       ELSE /\ ev' = e
            /\ buffer_' = 0
            /\ request_id_' = ""
            /\ last_percent_update' = -1
            /\ is_updating_' = FALSE
            /\ UNCHANGED restarted

\* BaseTask::disable(): the tick is deregistered and OnTaskDisable runs.
\* BaseTask also calls it when TaskCallback returns false.
disable(r, e, lp) ==
  /\ enabled' = FALSE
  /\ OnTaskDisable(r, e, lp)

\* TaskCallback, one definition per path

\* the connection broke and the stream pointer is null: fail "Connection
\* lost", return false
TickConnectionLost ==
  /\ client_' = "lost"
  /\ disable(restart_,
             sendResult(<<>>, request_id_, status_fail_,
                        connection_lost_error_, NullPtr),
             last_percent_update)
  /\ sess' = [sess EXCEPT !.log = Collapse(@, Statuses(ev')),
                          !.unsent = @ \/ ~server',
                          !.disables = @ + 1]
  /\ UNCHANGED <<image_size_, Update>>

\* stream->available() is 0: nothing to do
TickNoData ==
  /\ client_ = "open"
  /\ ev' = <<>>
  /\ UNCHANGED <<progVars, restarted, sess>>

\* the progress report after a write of bytes_read bytes
ReportsProgress_OnZero(bytes_read, percent) ==
  last_percent_update < 0 \/ last_percent_update + 10 <= percent

ReportsProgress(bytes_read, percent) ==
  /\ bytes_read # 0
  /\ (last_percent_update < 0 \/ last_percent_update + 10 <= percent)

\* restart_ after Update.end(): kept on success, set to false on failure
RestartAfterEnd_Kept(success) == restart_

RestartAfterEnd(success) == IF success THEN restart_ ELSE FALSE

\* Update.isFinished(): client_.end(), then Update.end()
FinishCalls_FinalizeFirst ==
  <<Call("Update.end", ""), Call("client.end", "")>>

FinishCalls == <<Call("client.end", ""), Call("Update.end", "")>>

\* Update.isFinished() when progress bytes are written
isFinished_Never(progress) == FALSE

isFinished(progress) == progress = Update.size

\* bytes are available: read (at most the buffer's size, and no more than
\* the image still lacks), write, report, and finish if complete;
\* outcome is what Update.end() gives when it is called
TickRead(bytes_read, outcome) ==
  /\ client_ = "open"
  /\ bytes_read <= Min(buffer_, Update.size - Update.progress)
  /\ LET progress == Update.progress + bytes_read
         percent == PercentOf[progress][image_size_]
         report == ReportsProgress(bytes_read, percent)
         lp == IF report THEN percent ELSE last_percent_update
         e1 == <<Call("Update.write", ToString(bytes_read))>>
         e2 == IF report
                 THEN sendResult(e1, request_id_, status_updating_,
                                 ProgressDetail(percent), NullPtr)
                 ELSE e1
         finished == isFinished(progress)
         success == outcome = ""
         e3 == e2 \o FinishCalls
         e4 == IF success
                 THEN sendResult(e3, request_id_, status_finish_, "", NullPtr)
                 ELSE sendResult(e3, request_id_, status_fail_,
                                 outcome, NullPtr)
     IN /\ UNCHANGED image_size_
        /\ IF finished
             THEN /\ Update' = [Update EXCEPT !.progress = progress,
                                              !.error = outcome]
                  /\ client_' = "closed"
                  /\ disable(RestartAfterEnd(success), e4, lp)
                  /\ sess' = [sess EXCEPT
                                !.log = Collapse(@, Statuses(ev')),
                                !.unsent = @ \/ ~server',
                                !.finalize = IF success THEN "ok"
                                                        ELSE "failed",
                                !.disables = @ + 1]
             ELSE /\ success
                  /\ Update' = [Update EXCEPT !.progress = progress]
                  /\ ev' = e2
                  /\ last_percent_update' = lp
                  /\ sess' = [sess EXCEPT
                                !.log = Collapse(@, Statuses(ev')),
                                !.unsent = @ \/ (report /\ ~server')]
                  /\ UNCHANGED <<is_updating_, request_id_, restart_,
                                 buffer_, client_, enabled, restarted>>

TaskCallback ==
  /\ enabled /\ ~restarted
  /\ op' = "TaskCallback"
  /\ server' \in BOOLEAN
  /\ \/ TickConnectionLost
     \/ TickNoData
     \/ \E bytes_read \in 0..MaxRead, outcome \in EndOutcomes :
          TickRead(bytes_read, outcome)
  /\ UNCHANGED factoryVars

\* ------------------------------------------------------------------------
\* after esp_restart() the firmware starts again from boot
Boot ==
  /\ restarted
  /\ is_updating_' = FALSE
  /\ request_id_' = ""
  /\ image_size_' = 0
  /\ restart_' = FALSE
  /\ last_percent_update' = -1
  /\ buffer_' = 0
  /\ client_' = "closed"
  /\ Update' = [md5set |-> FALSE, size |-> 0, progress |-> 0, error |-> ""]
  /\ enabled' = FALSE
  /\ restarted' = FALSE
  /\ op' = "boot"
  /\ ev' = <<>>
  /\ sess' = NoSession
  /\ server' = TRUE
  /\ factories' = EmptyMap
  /\ call' = <<>>
  /\ retval' = FALSE
  /\ first' = EmptyMap

Command == \E m \in Messages : handleCallback(m)

Next ==
  \/ Command
  \/ TaskCallback
  \/ Boot

Spec == Init /\ [][Next]_vars

\* The updater downloading images of about a hundred bytes, for the progress
\* reports: valid commands only
ProgressMessages ==
  [has_update : {TRUE}, url : {JStr("http://h/f")},
   size : {JUint(ProgressSize - 1), JUint(ProgressSize)},
   md5 : {JStr("abc123")}, restart : {JBool(FALSE)},
   requestId : {<<"r1">>}]

CommandProgress == \E m \in ProgressMessages : handleCallback(m)

NextProgress ==
  \/ CommandProgress
  \/ TaskCallback

SpecProgress == Init /\ [][NextProgress]_vars

\* The updater with a connection that stays valid and a source that goes on
\* delivering the image: valid commands, no tick finds the stream gone, and
\* the tick that reads one or more bytes is taken when it stays possible
\* (the scheduler runs the tick every 50 ms for ever, setIterations(-1))
DeliveryMessages ==
  [has_update : {TRUE}, url : {JStr("http://h/f")}, size : UintSizes,
   md5 : {JStr("abc123")}, restart : {JBool(TRUE), JBool(FALSE)},
   requestId : {NullPtr, <<"r1">>}]

CommandDelivery == \E m \in DeliveryMessages : handleCallback(m)

TaskCallbackConnected == TaskCallback /\ client_' # "lost"

DataTick == TaskCallbackConnected /\ Update'.progress > Update.progress

NextDelivery ==
  \/ CommandDelivery
  \/ TaskCallbackConnected
  \/ Boot

SpecDelivery == Init /\ [][NextDelivery]_vars /\ WF_vars(DataTick)

\* ------------------------------------------------------------------------
\* PeripheralFactory::registerFactory(name, factory)
registerFactory_Overwrites(name, factory) ==
  /\ op' = "registerFactory"
  /\ call' = <<name, factory>>
  /\ retval' = (count(factories, name) = 0)
  /\ factories' = [n \in DOMAIN factories \cup {name} |->
                     IF n = name THEN factory ELSE factories[n]]
  /\ first' = emplace(first, name, factory)
  /\ UNCHANGED <<progVars, server, restarted, ev, sess>>

registerFactory(name, factory) ==
  /\ op' = "registerFactory"
  /\ call' = <<name, factory>>
  /\ IF count(factories, name) = 0
       THEN /\ factories' = emplace(factories, name, factory)
            /\ retval' = TRUE
       ELSE /\ retval' = FALSE
            /\ UNCHANGED factories
  /\ first' = IF name \in DOMAIN first
                THEN first
                ELSE [n \in DOMAIN first \cup {name} |->
                        IF n = name THEN factory ELSE first[n]]
  /\ UNCHANGED <<progVars, server, restarted, ev, sess>>

\* The registry alone: any sequence of registerFactory calls
Register ==
  \E name \in Names, factory \in Callbacks : registerFactory(name, factory)

NextFactory == Register

SpecFactory == Init /\ [][NextFactory]_vars

\* ------------------------------------------------------------------------
\* Properties

Results(e) == SelectSeq(e, IsResult)
FailResults(e) == SelectSeq(e, LAMBDA x : IsResult(x) /\ x.status = status_fail_)
Calls(e) == {e[i].e : i \in 1..Len(e)} \ {"sendResults"}
Last(q) == q[Len(q)]
InLog(status) == \E i \in 1..Len(sess.log) : sess.log[i] = status

\* C1: the device restarts only in a session whose finalize succeeded and
\* whose command had restart = true, and never in a session that emitted a
\* "fail" result (looking at the sessions all of whose results were sent)
C1_RestartOnlyAfterFinish ==
  (restarted /\ ~sess.unsent) => /\ sess.finalize = "ok"
                                 /\ sess.restart
                                 /\ InLog(status_finish_)
                                 /\ ~InLog(status_fail_)

\* a tick of an active session that finds the stream pointer null
TickFindsStreamGone == TaskCallback /\ client_' = "lost"

\* C2: a tick that finds the stream gone emits exactly one fail result
\* "Connection lost" (the server being there to take it), ends the session
\* and does not restart the device, whatever the command's restart flag
C2_ConnectionLostEndsSession ==
  [][(TickFindsStreamGone /\ server') =>
       /\ Len(Results(ev')) = 1
       /\ Results(ev')[1].status = status_fail_
       /\ Results(ev')[1].detail = "Connection lost"
       /\ ~is_updating_'
       /\ ~enabled'
       /\ ~restarted']_vars

\* a tick in which Update.end() was called and failed
TickFinalizeFailed ==
  /\ TaskCallback
  /\ "Update.end" \in Calls(ev')
  /\ Update'.error # ""

\* what C3 says of such a tick
FinalizeFailureHandled ==
  /\ Len(FailResults(ev')) = 1
  /\ FailResults(ev')[1].detail = Update'.error
  /\ ~restart_'
  /\ ~restarted'

\* C3 as stated: a failed finalize emits one fail result with the error
\* text of the primitive, forces restart_ to false and does not restart
C3_Original ==
  [][TickFinalizeFailed => FinalizeFailureHandled]_vars

\* C3, amended: the same, when the Server collaborator is available; without
\* it no result is emitted, restart_ is still forced to false and the device
\* does not restart
C3_FinalizeFailure ==
  [][TickFinalizeFailed =>
       /\ server' => FinalizeFailureHandled
       /\ ~server' => Results(ev') = <<>>
       /\ ~restart_'
       /\ ~restarted']_vars

C3_Witness ==
  /\ op = "TaskCallback"
  /\ sess.finalize = "failed"
  /\ sess.restart
  /\ ev # <<>>
  /\ Last(ev) = Result(status_fail_, "MD5 Check Failed",
                       IF request_id_ = "" THEN NullPtr ELSE <<request_id_>>)
  /\ ~restarted

\* the field the validation of a command stops at, with the type the
\* command schema gives it
FirstOffending(m) ==
  IF ~IsString(m.url) THEN <<"url", "string">>
  ELSE IF ~IsSizeT(m.size) THEN <<"size", "unsigned integer">>
  ELSE IF ~IsString(m.md5) THEN <<"md5", "string">>
  ELSE <<"restart", "boolean">>

\* C4: a command with a missing or mistyped field, received while idle (the
\* server being there to take the result), gets exactly one fail result that
\* names the first offending field and its expected type, and starts no
\* session: no call on the client or the flashing primitive, flag still false
C4_MalformedCommand ==
  [][(~is_updating_ /\ op' = "handleCallback" /\ server') =>
       \A m \in InvalidMessages :
         handleCallback(m) =>
           /\ Len(Results(ev')) = 1
           /\ Results(ev')[1].status = status_fail_
           /\ Results(ev')[1].detail =
                "Missing property: " \o FirstOffending(m)[1] \o " ("
                  \o FirstOffending(m)[2] \o ")"
           /\ Calls(ev') = {}
           /\ ~is_updating_'
           /\ ~enabled'
           /\ UNCHANGED <<client_, Update, buffer_>>]_vars

\* a step in which handleCallback takes command m, which has an update
\* directive, while a session is active
RejectedStep(m) == is_updating_ /\ m.has_update /\ handleCallback(m)

\* some command with an update directive is taken while a session is active
SomeRejectedStep ==
  /\ is_updating_
  /\ op' = "handleCallback"
  /\ \E m \in Messages : RejectedStep(m)

\* C5 as stated: such a command produces exactly one fail result with detail
\* "update already running" and nothing else happens
C5_Original ==
  [][SomeRejectedStep =>
       /\ Len(ev') = 1
       /\ IsResult(ev'[1])
       /\ ev'[1].status = status_fail_
       /\ ev'[1].detail = "update already running"
       /\ UNCHANGED progVars]_vars

\* C5, amended: with the server available such a command produces exactly
\* one fail result with detail "OTA update already running", without it no
\* result; in both cases nothing else is called and no field changes
C5_RejectedWhileActive ==
  [][SomeRejectedStep =>
       /\ server' => /\ Len(ev') = 1
                     /\ IsResult(ev'[1])
                     /\ ev'[1].status = status_fail_
                     /\ ev'[1].detail = "OTA update already running"
       /\ ~server' => ev' = <<>>
       /\ UNCHANGED progVars]_vars

C5_Witness ==
  /\ op = "handleCallback"
  /\ is_updating_
  /\ request_id_ = "r1"
  /\ ev = <<Result(status_fail_, "OTA update already running", <<"r2">>)>>

\* C6: the fail result of such a rejection carries the request id of the new
\* command, none if the new command has none
C6_RejectionUsesNewId ==
  [][(is_updating_ /\ op' = "handleCallback") =>
       \A m \in Messages :
         RejectedStep(m) =>
           \A i \in 1..Len(ev') :
             IsResult(ev'[i]) => ev'[i].id = m.requestId]_vars

\* C7: such a rejection leaves the active session as it was: stored request
\* id, image size, restart intent, bytes written, last reported percent,
\* buffer, connection, tick registration and the session's history
C7_RejectionLeavesSession ==
  [][SomeRejectedStep => UNCHANGED <<progVars, restarted, sess>>]_vars

C7_Witness ==
  /\ op = "handleCallback"
  /\ is_updating_
  /\ FailResults(ev) # <<>>
  /\ Update.progress > 0
  /\ last_percent_update > 0
  /\ sess.log = <<status_start_, status_updating_>>

\* the three outcomes of an invocation of handleCallback
SessionStarted ==
  /\ ~is_updating_ /\ is_updating_' /\ enabled'
  /\ Statuses(ev') = <<status_start_>>
OneFailNoSession ==
  /\ Statuses(ev') = <<status_fail_>>
  /\ is_updating_' = is_updating_ /\ enabled' = enabled
SilentNoOp ==
  /\ ev' = <<>>
  /\ UNCHANGED progVars
  /\ \A m \in Messages : handleCallback(m) => ~m.has_update

\* a step of handleCallback (no other operation sets op to its name)
HandleCallbackStep == op' = "handleCallback"

\* C8 as stated: every invocation starts a session, or emits exactly one
\* fail result and starts none, or (only without an update directive) emits
\* nothing and changes nothing
C8_Original ==
  [][HandleCallbackStep =>
       (SessionStarted \/ OneFailNoSession \/ SilentNoOp)]_vars

\* C8, amended: the same for every invocation made while the Server
\* collaborator is available
C8_ThreeOutcomes ==
  [][(HandleCallbackStep /\ server') =>
       (SessionStarted \/ OneFailNoSession \/ SilentNoOp)]_vars

C8_Witness ==
  /\ op = "handleCallback"
  /\ ~is_updating_ /\ ~enabled
  /\ Len(ev) = 3
  /\ ev[2].e = "client.GET"
  /\ ev[3] = Result(status_fail_, "HTTP code: 404", <<"r1">>)

\* the result sequences of a session, a run of "updating" counted once
SessionLogs ==
  {<<status_start_>>,
   <<status_start_, status_updating_>>,
   <<status_start_, status_finish_>>,
   <<status_start_, status_fail_>>,
   <<status_start_, status_updating_, status_finish_>>,
   <<status_start_, status_updating_, status_fail_>>}

\* C9: the results of a session (all of them sent) are one "start", then
\* "updating" results, then one "finish" or "fail"; the tick is registered
\* exactly until the terminal result, teardown has run once by then, and the
\* device restarts only after "finish"
C9_ResultSequence ==
  (~sess.unsent /\ (is_updating_ \/ sess.log # <<>>)) =>
    /\ sess.log \in SessionLogs
    /\ enabled <=> Last(sess.log) \notin {status_finish_, status_fail_}
    /\ ~enabled => sess.disables = 1
    /\ restarted => Last(sess.log) = status_finish_

\* C10: an "updating" result of a tick has detail {done:NN%} with
\* NN = floor(bytes_written * 100 / image_size); it is sent only if NN is at
\* least last_percent_update + 10, or nothing was reported yet (-1) and
\* NN > 0; afterwards last_percent_update = NN while the session goes on
C10_ProgressReports ==
  [][op' = "TaskCallback" =>
       \A i \in 1..Len(ev') :
         (IsResult(ev'[i]) /\ ev'[i].status = status_updating_) =>
           LET NN == (Update'.progress * 100) \div image_size_
           IN /\ ev'[i].detail = ProgressDetail(NN)
              /\ \/ NN >= last_percent_update + 10
                 \/ (last_percent_update = -1 /\ NN > 0)
              /\ enabled' => last_percent_update' = NN]_vars

\* the percent of C10 without the condition on the first report: the value
\* in the detail is the floor
C10_PercentIsFloor ==
  (op = "TaskCallback" /\ enabled) =>
    \A i \in 1..Len(ev) :
      (IsResult(ev[i]) /\ ev[i].status = status_updating_) =>
        ev[i].detail = ProgressDetail((Update.progress * 100) \div image_size_)

\* the positions in e of the calls of a function
CallsOf(e, name) == {i \in 1..Len(e) : e[i].e = name}

\* the positions in e of the results with one of the statuses
ResultsOf(e, statuses) ==
  {i \in 1..Len(e) : IsResult(e[i]) /\ e[i].status \in statuses}

\* C11: in the tick after which the flashing primitive holds the whole image,
\* client_.end() is called once, before Update.end(), and Update.end() before
\* the "finish" or "fail" result of that tick; and a step that emits a
\* "finish" result has closed the connection before it
C11_CloseFinalizeReport ==
  [][((op' = "TaskCallback" /\ Update'.progress = Update'.size) =>
        \E i, j \in 1..Len(ev') :
          /\ CallsOf(ev', "client.end") = {i}
          /\ CallsOf(ev', "Update.end") = {j}
          /\ i < j
          /\ \A k \in ResultsOf(ev', {status_finish_, status_fail_}) : j < k)
     /\ (\A k \in ResultsOf(ev', {status_finish_}) :
           /\ client_' = "closed"
           /\ \E c \in CallsOf(ev', "client.end") : c < k)]_vars

C11_Witness ==
  /\ op = "TaskCallback"
  /\ Update.progress = Update.size
  /\ client_ = "closed"
  /\ Len(ev) >= 3
  /\ ev[Len(ev) - 2].e = "client.end"
  /\ ev[Len(ev) - 1].e = "Update.end"
  /\ Last(ev) = Result(status_finish_, "", <<"r1">>)

\* handleCallback, while no session is active, takes up a command for which
\* it opens the connection and which begins no session history
FailedOpenStep ==
  /\ ~is_updating_ /\ ~restarted /\ op' = "handleCallback"
  /\ Calls(ev') \cap {"client.begin", "client.begin+CA"} # {}
  /\ sess' = NoSession

\* the valid commands with the url, request id, size and restart flag of the
\* step
CommandsOfStep ==
  {m \in ValidMessages : /\ m.url.s = ev'[1].detail
                         /\ StringOf(m.requestId) = request_id_'
                         /\ m.size.n = image_size_'
                         /\ m.restart.b = restart_'}

\* what C12 says of a step that creates no session
NoSessionCreated ==
  /\ Calls(ev') \cap {"Update.setMD5", "Update.begin"} = {}
  /\ UNCHANGED Update
  /\ ResultsOf(ev', {status_start_}) = {}
  /\ ~is_updating_'
  /\ ~enabled'
  /\ UNCHANGED buffer_

\* the step emits exactly one result: fail with this detail
OneFail(detail) ==
  /\ Len(Results(ev')) = 1
  /\ Results(ev')[1].status = status_fail_
  /\ Results(ev')[1].detail = detail

\* C12 as stated: while idle, a valid command whose client_.begin() fails
\* gets exactly one fail result "Failed to connect", one whose GET returns a
\* code other than 200 exactly one fail result with that code, and neither
\* creates a session
C12_Original ==
  [][FailedOpenStep =>
       \A m \in CommandsOfStep :
         /\ CommandConnectFailed(m) =>
              OneFail("Failed to connect") /\ NoSessionCreated
         /\ \A status_code \in StatusCodes :
              CommandHttpError(m, status_code) =>
                /\ OneFail("HTTP code: " \o ToString(status_code))
                /\ NoSessionCreated]_vars

\* C12, amended: the fail result is emitted when the Server collaborator is
\* available and no result when it is not; no session is created either way
C12_ConnectAndHttpFailure ==
  [][FailedOpenStep =>
       \A m \in CommandsOfStep :
         /\ CommandConnectFailed(m) =>
              /\ server' => OneFail("Failed to connect")
              /\ ~server' => Results(ev') = <<>>
              /\ NoSessionCreated
         /\ \A status_code \in StatusCodes :
              CommandHttpError(m, status_code) =>
                /\ server' =>
                     OneFail("HTTP code: " \o ToString(status_code))
                /\ ~server' => Results(ev') = <<>>
                /\ NoSessionCreated]_vars

C12_Witness ==
  /\ op = "handleCallback"
  /\ ~is_updating_ /\ ~enabled
  /\ ~Update.md5set
  /\ buffer_ = 0
  /\ ev = <<Call("client.begin", "http://h/f"),
            Result(status_fail_, "Failed to connect", <<"r2">>)>>

\* C13: a session that has ended, with whatever outcome, has run teardown
\* exactly once, and the buffer is released, the stored request id empty,
\* last_percent_update -1 and the active flag false; this holds in
\* particular at the moment the device restarts (the restarts looked at are
\* those after a successful finalize)
C13_TeardownBeforeRestart ==
  ((sess.disables > 0 \/ restarted) /\ (restarted => sess.finalize = "ok")) =>
    /\ sess.disables = 1
    /\ buffer_ = 0
    /\ request_id_ = ""
    /\ last_percent_update = -1
    /\ ~is_updating_

\* the scheme of the urls of the model: the text before "://", none ("")
\* when the url has no "://"
UrlScheme(url) ==
  CASE url = "http://h/f" -> "http"
    [] url = "https://h/f" -> "https"
    [] OTHER -> ""

\* C14: a valid command taken up while idle opens the connection with the
\* root certificates of the server when its url has the scheme https, and
\* without certificates when it has another scheme
C14_HttpsUsesCertificates ==
  [][(/\ ~is_updating_ /\ op' = "handleCallback"
      /\ ev' # <<>>
      /\ ev'[1].e \in {"client.begin", "client.begin+CA"}) =>
       /\ UrlScheme(ev'[1].detail) = "https" => ev'[1].e = "client.begin+CA"
       /\ UrlScheme(ev'[1].detail) \notin {"https", ""} =>
            ev'[1].e = "client.begin"]_vars

\* the request id of a result sent with override id p while s is stored
IdChosen(p, s) ==
  IF p # NullPtr THEN p ELSE IF s # "" THEN <<s>> ELSE NullPtr

\* C15: every result carries the override id when one is given (only the
\* rejection of a command during a session gives one: the id of that
\* command), otherwise the stored request id when it is not empty, otherwise
\* none.  The stored id is the one at the call of sendResult: for a command
\* taken up while idle the id just stored, in a tick the id before teardown
C15_RequestIdOfResults ==
  [][/\ (is_updating_ /\ op' = "handleCallback" /\ ev' # <<>>) =>
          (\A m \in Messages :
             (~restarted /\ CommandRejected(m)) =>
               (\A i \in 1..Len(ev') :
                  IsResult(ev'[i]) =>
                    ev'[i].id = IdChosen(m.requestId, request_id_)))
     /\ (~is_updating_ /\ op' = "handleCallback") =>
          (\A i \in 1..Len(ev') :
             IsResult(ev'[i]) => ev'[i].id = IdChosen(NullPtr, request_id_'))
     /\ (op' = "TaskCallback") =>
          (\A i \in 1..Len(ev') :
             IsResult(ev'[i]) => ev'[i].id = IdChosen(NullPtr, request_id_))
    ]_vars

C15_Witness ==
  /\ op = "handleCallback"
  /\ is_updating_
  /\ request_id_ = "r2"
  /\ sess.log = <<status_start_>>
  /\ ev = <<Result(status_fail_, "OTA update already running", <<"r1">>)>>

\* C16: in every state the buffer has its 4096 bytes exactly when a session
\* is active and is empty otherwise; it is allocated while the tick is
\* registered, and a session that has run teardown has run it once and has
\* released the buffer
C16_BufferWithSession ==
  /\ buffer_ \in {0, BufferCapacity}
  /\ (buffer_ = BufferCapacity) <=> is_updating_
  /\ enabled => buffer_ = BufferCapacity
  /\ sess.disables > 0 => (sess.disables = 1 /\ buffer_ = 0)

\* the first three conjuncts of C16 alone
C16_AllocatedIffActive ==
  /\ buffer_ \in {0, BufferCapacity}
  /\ (buffer_ = BufferCapacity) <=> is_updating_
  /\ enabled => buffer_ = BufferCapacity

\* C17: a step that begins the write session of the flashing primitive has
\* set the expected hash before, and begins it with image_size_; a step that
\* writes to the flashing primitive starts from a state in which a session is
\* active, its tick registered, and the hash and the size were set by an
\* earlier step
C17_HashSizeThenWrite ==
  [][/\ (\A j \in CallsOf(ev', "Update.begin") :
           /\ \E i \in CallsOf(ev', "Update.setMD5") : i < j
           /\ ev'[j].detail = ToString(image_size_')
           /\ Update'.md5set
           /\ Update'.size = image_size_'
           /\ Update'.progress = 0)
     /\ (\A k \in CallsOf(ev', "Update.write") :
           /\ is_updating_ /\ enabled
           /\ Update.md5set
           /\ Update.size = image_size_
           /\ CallsOf(ev', "Update.begin") = {}
           /\ CallsOf(ev', "Update.setMD5") = {})]_vars

C17_Witness ==
  /\ op = "TaskCallback"
  /\ is_updating_ /\ enabled
  /\ CallsOf(ev, "Update.write") # {}
  /\ Update.md5set
  /\ Update.size = LargeSize
  /\ Update.progress = MaxRead

\* a tick that finds the stream there and reads no byte: none available, or
\* a read that returns 0
ZeroReadTick ==
  /\ op' = "TaskCallback"
  /\ client_' # "lost"
  /\ \A k \in CallsOf(ev', "Update.write") : ev'[k].detail = "0"

\* a tick that finds the stream gone, or reads one or more bytes
DataOrLossTick ==
  /\ op' = "TaskCallback"
  /\ \/ client_' = "lost"
     \/ \E k \in CallsOf(ev', "Update.write") : ev'[k].detail # "0"

\* C18: a step that deregisters the tick while the image is incomplete is a
\* tick that found the connection lost; a tick on a valid connection that
\* reads no byte emits no result and changes neither the bytes written, nor
\* last_percent_update, nor the active flag, nor the registration of the
\* tick; and no step other than a tick reading bytes or finding the
\* connection lost ends an active session, so without such ticks the
\* session stays active for ever
C18_EndsEarlyOnlyByLoss ==
  [][/\ (enabled /\ ~enabled' /\ Update'.progress < Update'.size) =>
          (op' = "TaskCallback" /\ client_' = "lost")
     /\ ZeroReadTick =>
          (/\ Results(ev') = <<>>
           /\ UNCHANGED <<Update, last_percent_update, is_updating_,
                          enabled, buffer_, client_, restarted>>)
     /\ (enabled /\ is_updating_ /\ ~DataOrLossTick) =>
          (enabled' /\ is_updating_')]_vars

C18_Witness ==
  /\ op = "TaskCallback"
  /\ ev = <<>>
  /\ client_ = "open"
  /\ enabled /\ is_updating_
  /\ Update.progress > 0
  /\ Update.progress < Update.size
  /\ last_percent_update > 0

\* the number of "finish" and "fail" results in the history of the session
TerminalResults ==
  Cardinality({i \in 1..Len(sess.log) :
                 sess.log[i] \in {status_finish_, status_fail_}})

\* the step that deregisters the tick of a session
SessionEndStep == enabled /\ ~enabled'

\* C19 as stated: with the connection valid and the source delivering, the
\* step that ends a session emits exactly one "finish" or "fail" result, the
\* only one of the session, and runs teardown once; and every armed session
\* gets there
C19_Original ==
  /\ [][SessionEndStep =>
          /\ Cardinality(ResultsOf(ev', {status_finish_, status_fail_})) = 1
          /\ sess'.disables = 1]_vars
  /\ [](sess.disables > 0 => TerminalResults = 1)
  /\ (enabled ~> (~enabled /\ sess.disables = 1))

\* C19, amended: the "finish" or "fail" result is emitted when the Server
\* collaborator is available in the tick that ends the session, and no
\* result when it is not
C19_SessionTerminates ==
  /\ [][SessionEndStep =>
          /\ server' =>
               Cardinality(ResultsOf(ev', {status_finish_, status_fail_})) = 1
          /\ ~server' => Results(ev') = <<>>
          /\ sess'.disables = 1]_vars
  /\ [](sess.disables > 0 => TerminalResults <= 1)
  /\ [](sess.disables > 0 /\ ~sess.unsent => TerminalResults = 1)
  /\ (enabled ~> (~enabled /\ sess.disables = 1))

C19_Witness ==
  /\ ~enabled
  /\ sess.disables = 1
  /\ sess.finalize = "ok"
  /\ Update.size = LargeSize
  /\ Update.progress = LargeSize
  /\ TerminalResults = 1
  /\ Last(sess.log) = status_finish_

\* C20: whenever no session is active the stored request id is empty and
\* last_percent_update is -1
C20_IdleDefaults ==
  ~is_updating_ => (request_id_ = "" /\ last_percent_update = -1)

\* the part of C20 on last_percent_update alone
C20_IdlePercent == ~is_updating_ => last_percent_update = -1

\* C21: whenever no session is active, the connection of the updater is not
\* open
C21_NoConnectionWhenIdle == ~is_updating_ => client_ # "open"

\* the part of C21 on sessions that end by completing the image: the tick
\* that ends the session leaves the connection closed
C21_CompletionCloses ==
  [][(enabled /\ ~enabled' /\ "Update.end" \in Calls(ev')) =>
       client_' = "closed"]_vars

\* C22: after any sequence of registerFactory calls the registered names are
\* those passed so far and each maps to the first callback passed under it;
\* a call returns true exactly when its name was not registered, and then
\* the registry gains that name with that callback and nothing else changes
\* in it; a call that returns false leaves the registry as it was
C22_FirstRegistrationWins ==
  /\ [](/\ DOMAIN factories = DOMAIN first
        /\ \A n \in DOMAIN factories : factories[n] = first[n])
  /\ [][op' = "registerFactory" =>
          /\ retval' <=> call'[1] \notin DOMAIN factories
          /\ retval' =>
               /\ DOMAIN factories' = DOMAIN factories \cup {call'[1]}
               /\ factories'[call'[1]] = call'[2]
               /\ \A n \in DOMAIN factories : factories'[n] = factories[n]
          /\ ~retval' => factories' = factories]_vars

C22_Witness ==
  /\ op = "registerFactory"
  /\ ~retval
  /\ call[1] \in DOMAIN factories
  /\ factories[call[1]] # call[2]
  /\ Cardinality(DOMAIN factories) > 1

====
